---- MODULE Spec2Model ----
(***************************************************************************)
(* A model of toy_gemm::Mat<R, C, T> (include/toy-gemm/matrix.hpp).        *)
(*                                                                         *)
(* A matrix is its storage `elems`: a sequence of R rows, each a sequence  *)
(* of C elements (std::array<std::array<T, C>, R>).  The source indexes    *)
(* from 0; the sequences of TLA+ index from 1, so the element the source   *)
(* calls (r, c) is M[r + 1][c + 1]: see Elem.                              *)
(*                                                                         *)
(* The template parameters R and C of a matrix are the shape of its        *)
(* storage.  What the compiler rejects (a disabled constructor, a failed   *)
(* static_assert) is modelled as an operation whose status says so.        *)
(***************************************************************************)
EXTENDS Integers, Sequences, FiniteSets, TLC

\* ---------------------------------------------------------------- bounds

\* The largest row count and the largest column count of a matrix type.
MaxDim == 2

\* The element values the inputs are drawn from (T = int).
Values == {0, 1}

Dims == 1..MaxDim

\* ---------------------------------------------------------------- storage

\* All sequences of length n over S.
SeqsOfLen(S, n) == [1..n -> S]

\* StorageType values of shape R x C over Values.
Mats(R, C) == [1..R -> [1..C -> Values]]

\* ROW_COUNT, COL_COUNT and ELEM_COUNT of a matrix type, read off a value.
ROW_COUNT(M) == Len(M)
COL_COUNT(M) == Len(M[1])
ELEM_COUNT(R, C) == R * C

\* The element at row r, column c, both counted from 0.
Elem(M, r, c) == M[r + 1][c + 1]

\* The sum of a sequence of numbers, left to right.
RECURSIVE SumSeq(_)
SumSeq(s) == IF Len(s) = 0 THEN 0 ELSE s[1] + SumSeq(Tail(s))

\* The concatenation of a sequence of sequences (std::tuple_cat).
RECURSIVE tuple_cat(_)
tuple_cat(ss) == IF Len(ss) = 0 THEN << >> ELSE ss[1] \o tuple_cat(Tail(ss))

\* ---------------------------------------------------------------- construction

\* elems{e...}: aggregate initialization of the nested arrays with brace
\* elision.  The values fill the storage in row-major order; every element
\* the list does not reach is value-initialized, that is zero.
AggregateInit(R, C, e) ==
    [r \in 1..R |-> [c \in 1..C |->
        IF (r - 1) * C + (c - 1) < Len(e) THEN e[(r - 1) * C + (c - 1) + 1] ELSE 0]]

\* A storage member without its initializer: the elements are not zeroed
\* and hold what the memory held, here 1.
DefaultCtorUninitialized(R, C) == [r \in 1..R |-> [c \in 1..C |-> 1]]

\* StorageType elems{0}: the default member initializer.
DefaultCtor(R, C) == AggregateInit(R, C, <<0>>)

\* A gate that follows aggregate initialization instead: any pack that fits
\* the storage.
IsConstructibleUpTo(R, C, n) == n <= ELEM_COUNT(R, C)

\* The enable_if of the value-pack constructor.
IsConstructible(R, C, n) == ELEM_COUNT(R, C) = n \/ n = 1

\* The value-pack constructor: elems{std::forward<E>(e)...}.
PackCtor(R, C, e) == AggregateInit(R, C, e)

\* A make_row that unpacks the list from its far end.
make_row_reversed(l, C, junk) ==
    [c \in 1..C |-> IF C - c + 1 <= Len(l) THEN l[C - c + 1] ELSE junk]

\* make_row: element Cols of the list for every Cols in [0, C).  The list is
\* read at C positions whatever its length: a position at or past its end is
\* an out-of-range read, which yields `junk`.
make_row(l, C, junk) == [c \in 1..C |-> IF c <= Len(l) THEN l[c] ELSE junk]

\* row_wise_init: row i of the storage is make_row of the i-th list.
row_wise_init(R, C, lists, junk) == [r \in 1..R |-> make_row(lists[r], C, junk)]

\* every_list_must_have_C_elements of the list constructor.
every_list_must_have_C_elements(C, lists) ==
    \A r \in 1..Len(lists) : C = Len(lists[r])

\* ---------------------------------------------------------------- access

\* a[i] of a std::array: no comparison with the size; an index at or past
\* the size reaches whatever lies there.
array_subscript(a, i) ==
    [status |-> "ok", val |-> IF i < Len(a) THEN a[i + 1] ELSE << >>, reached |-> {i}]

\* a.at(i) of a std::array, as every runtime accessor calls it: the index
\* is compared with the size first; an index at or past the size throws
\* std::out_of_range and reaches no element.  reached: the indices read.
array_at(a, i) ==
    IF i < Len(a)
    THEN [status |-> "ok", val |-> a[i + 1], reached |-> {i}]
    ELSE [status |-> "out_of_range", val |-> << >>, reached |-> {}]

\* operator[](r) and at(r): elems.at(r).
at_row(M, r) ==
    [status |-> array_at(M, r).status,
     val |-> array_at(M, r).val,
     touched |-> {<<i>> : i \in array_at(M, r).reached}]

\* at(r, c): elems.at(r).at(c).
at_elem(M, r, c) ==
    IF array_at(M, r).status # "ok"
    THEN at_row(M, r)
    ELSE [status |-> array_at(array_at(M, r).val, c).status,
          val |-> array_at(array_at(M, r).val, c).val,
          touched |-> at_row(M, r).touched
                      \cup {<<r, j>> : j \in array_at(array_at(M, r).val, c).reached}]

\* GetCol<Col>::impl: std::get<Col> of every row, in row order.
GetColImpl(M, Col) == [i \in 1..ROW_COUNT(M) |-> Elem(M, i - 1, Col)]

\* What get_col<Col> needs to compile: std::get<Col> of a row needs
\* Col < C, and the static_assert of GetCol::impl compares COL_COUNT with
\* the length of the index sequence, which is R.
GetColAccepted(R, C, Col) == Col < C /\ C = R

\* A view with the two std::get swapped: the elements of row Col.
GetRowViewImpl(M, Col) == [i \in 1..ROW_COUNT(M) |-> <<Col, i - 1>>]

\* GetColView<Col>::impl: the references to the elements of column Col, one
\* per row, as the positions they refer to.
GetColViewImpl(M, Col) == [i \in 1..ROW_COUNT(M) |-> <<i - 1, Col>>]

\* The values a column view refers to.
col_view(M, Col) == [i \in 1..ROW_COUNT(M) |-> Elem(M, i - 1, Col)]

\* Assignment of a tuple to a tuple of references: element by element.
ViewAssign(M, view, t) ==
    [r \in 1..ROW_COUNT(M) |-> [c \in 1..COL_COUNT(M) |->
        IF \E i \in 1..Len(view) : view[i] = <<r - 1, c - 1>>
        THEN t[CHOOSE i \in 1..Len(view) : view[i] = <<r - 1, c - 1>>]
        ELSE M[r][c]]]

\* A store through the reference at(r, c) returned: the element positions
\* among `touched` get v; a position outside the storage changes no element
\* of it.
StoreThrough(M, touched, v) ==
    [r \in 1..ROW_COUNT(M) |-> [c \in 1..COL_COUNT(M) |->
        IF <<r - 1, c - 1>> \in touched THEN v ELSE M[r][c]]]

\* ---------------------------------------------------------------- equality

\* row_equal_impl: the fold of == over the columns of one row.
row_equal_impl(self, other) == \A c \in 1..Len(self) : self[c] = other[c]

\* equal: the fold of row_equal over the rows.
equal(self, other) == \A r \in 1..Len(self) : row_equal_impl(self[r], other[r])

\* ---------------------------------------------------------------- transpose

\* A transpose that concatenates the rows in place of the column views.
transpose_impl_rows(M) == PackCtor(COL_COUNT(M), ROW_COUNT(M), tuple_cat(M))

\* transpose_impl: the column views of columns 0 .. C-1, concatenated, given
\* to the value-pack constructor of Mat<C, R, T>.
transpose_impl(M) ==
    PackCtor(COL_COUNT(M), ROW_COUNT(M),
             tuple_cat([idx \in 1..COL_COUNT(M) |-> col_view(M, idx - 1)]))

\* ---------------------------------------------------------------- multiplication

\* An inner product whose index sequence starts at 1.
inner_product_from_one(this_row, other_col) ==
    SumSeq([k \in 1..(Len(this_row) - 1) |-> this_row[k + 1] * other_col[k + 1]])

\* MulImpl::inner_product: the sum of the element-wise products.
inner_product(this_row, other_col) ==
    SumSeq([k \in 1..Len(this_row) |-> this_row[k] * other_col[k]])

\* MulImpl::build_row: one inner product per column of the other matrix.
build_row(Row, this_storage, other_mat) ==
    [oc \in 1..COL_COUNT(other_mat) |->
        inner_product(this_storage[Row], col_view(other_mat, oc - 1))]

\* MulImpl::build_mat: the rows of the product, concatenated.
build_mat(this_storage, other_mat) ==
    tuple_cat([r \in 1..ROW_COUNT(this_storage) |-> build_row(r, this_storage, other_mat)])

\* operator*: the template matches only a right operand with C rows.
MulAccepted(M, other) == COL_COUNT(M) = ROW_COUNT(other)

\* operator*: the value-pack constructor of Mat<R, OtherC> on build_mat.
Mul(M, other) == PackCtor(ROW_COUNT(M), COL_COUNT(other), build_mat(M, other))

\* ---------------------------------------------------------------- special functions

\* A fill_diagonal without the fold: element (0, 0) alone.
fill_diagonal_first(M, val) ==
    [r \in 1..ROW_COUNT(M) |-> [c \in 1..COL_COUNT(M) |->
        IF r = 1 /\ c = 1 THEN val ELSE M[r][c]]]

\* fill_diagonal: element (i, i) becomes val for every row i.
fill_diagonal(M, val) ==
    [r \in 1..ROW_COUNT(M) |-> [c \in 1..COL_COUNT(M) |-> IF r = c THEN val ELSE M[r][c]]]

\* zeros: ThisType{0}.
zeros(R, C) == PackCtor(R, C, <<0>>)

\* identity: Mat<R, R, T> ret{0}, then the diagonal filled with T{1}.
identity(R) == fill_diagonal(PackCtor(R, R, <<0>>), 1)

\* ---------------------------------------------------------------- state

VARIABLES
    x,      \* a matrix, never written once it is constructed
    y,      \* a mutable matrix of the same type, later a copy of x
    ret,    \* the last operation: its name, arguments, outcome and result
    pc      \* "start": declared; "constructed": x has its value;
            \* "ready": y is a copy of x; "done": an operation has run

vars == <<x, y, ret, pc>>

\* The outcome of an operation.  touched: the storage positions it reached.
Result(op, arg, status, val, touched) ==
    [op |-> op, arg |-> arg, status |-> status, val |-> val, touched |-> touched]

\* The initializer lists a row-wise construction may be given for one row.
Lists(C) == UNION {SeqsOfLen(Values, n) : n \in 0..(C + 1)}

\* Mat<R, C> x; Mat<R, C> y;
Init ==
    \E R \in Dims, C \in Dims :
        /\ x = DefaultCtor(R, C)
        /\ y = DefaultCtor(R, C)
        /\ ret = Result("declare", << >>, "ok", << >>, {})
        /\ pc = "start"

\* ---------------------------------------------------------------- constructors

\* x = Mat<R, C>(e...);  with a pack of n values.  A pack the enable_if
\* rejects leaves no program to run.
ConstructPack ==
    /\ pc = "start"
    /\ \E n \in 1..(ELEM_COUNT(ROW_COUNT(x), COL_COUNT(x)) + 1) :
       \E e \in SeqsOfLen(Values, n) :
          IF IsConstructible(ROW_COUNT(x), COL_COUNT(x), n)
          THEN /\ x' = PackCtor(ROW_COUNT(x), COL_COUNT(x), e)
               /\ ret' = Result("pack_ctor", e, "ok", << >>, {})
               /\ pc' = "constructed"
          ELSE /\ ret' = Result("pack_ctor", e, "not_constructible", << >>, {})
               /\ pc' = "done"
               /\ x' = x
    /\ UNCHANGED y

\* x = Mat<R, C>({...}, ..., {...});  with R lists.  The lengths are checked
\* by an assert alone: with assertions enabled a mismatch aborts the
\* process; with NDEBUG the check is gone, make_row reads C positions of
\* every list, and a read past the end of a list is undefined (junk).
ConstructList ==
    /\ pc = "start"
    /\ \E lists \in [1..ROW_COUNT(x) -> Lists(COL_COUNT(x))] :
       \E build \in {"debug", "release"}, junk \in Values :
          IF every_list_must_have_C_elements(COL_COUNT(x), lists) \/ build = "release"
          THEN /\ x' = row_wise_init(ROW_COUNT(x), COL_COUNT(x), lists, junk)
               /\ ret' = Result("list_ctor", lists, "ok", << >>, {})
               /\ pc' = "constructed"
          ELSE /\ ret' = Result("list_ctor", lists, "abort", << >>, {})
               /\ pc' = "done"
               /\ x' = x
    /\ UNCHANGED y

\* x = Mat<R, C>();
ConstructDefault ==
    /\ pc = "start"
    /\ x' = DefaultCtor(ROW_COUNT(x), COL_COUNT(x))
    /\ ret' = Result("default_ctor", << >>, "ok", << >>, {})
    /\ pc' = "constructed"
    /\ UNCHANGED y

\* x = Mat<R, C>::zeros();
ConstructZeros ==
    /\ pc = "start"
    /\ x' = zeros(ROW_COUNT(x), COL_COUNT(x))
    /\ ret' = Result("zeros", << >>, "ok", << >>, {})
    /\ pc' = "constructed"
    /\ UNCHANGED y

\* y = x;  the defaulted copy assignment: the storage, element by element.
Copy ==
    /\ pc = "constructed"
    /\ y' = x
    /\ ret' = Result("copy", << >>, "ok", << >>, {})
    /\ pc' = "ready"
    /\ UNCHANGED x

\* ---------------------------------------------------------------- runtime access

\* y[r]: elems.at(r).
Bracket ==
    /\ pc = "ready"
    /\ \E r \in 0..(MaxDim + 1) :
          ret' = Result("bracket", <<r>>, at_row(y, r).status, at_row(y, r).val,
                        at_row(y, r).touched)
    /\ pc' = "done"
    /\ UNCHANGED <<x, y>>

\* y.at(r): elems.at(r).
AtRow ==
    /\ pc = "ready"
    /\ \E r \in 0..(MaxDim + 1) :
          ret' = Result("at_row", <<r>>, at_row(y, r).status, at_row(y, r).val,
                        at_row(y, r).touched)
    /\ pc' = "done"
    /\ UNCHANGED <<x, y>>

\* y.at(r, c): elems.at(r).at(c), read.
AtElem ==
    /\ pc = "ready"
    /\ \E r \in 0..(MaxDim + 1), c \in 0..(MaxDim + 1) :
          ret' = Result("at_elem", <<r, c>>, at_elem(y, r, c).status, at_elem(y, r, c).val,
                        at_elem(y, r, c).touched)
    /\ pc' = "done"
    /\ UNCHANGED <<x, y>>

\* y.at(r, c) = v: the reference the mutable overload returns, written.
AtElemAssign ==
    /\ pc = "ready"
    /\ \E r \in 0..(MaxDim + 1), c \in 0..(MaxDim + 1), v \in Values :
          /\ ret' = Result("at_assign", <<r, c, v>>, at_elem(y, r, c).status, << >>,
                           at_elem(y, r, c).touched)
          /\ y' = IF at_elem(y, r, c).status = "ok"
                  THEN StoreThrough(y, at_elem(y, r, c).touched, v)
                  ELSE y
    /\ pc' = "done"
    /\ UNCHANGED x

\* ---------------------------------------------------------------- columns

\* y.get_col<Col>().
GetCol ==
    /\ pc = "ready"
    /\ \E Col \in 0..MaxDim :
          ret' = IF GetColAccepted(ROW_COUNT(y), COL_COUNT(y), Col)
                 THEN Result("get_col", <<Col>>, "ok", GetColImpl(y, Col), {})
                 ELSE Result("get_col", <<Col>>, "rejected", << >>, {})
    /\ pc' = "done"
    /\ UNCHANGED <<x, y>>

\* y.col_view<Col>() = std::make_tuple(t...).  std::get<Col> of a row does
\* not compile for Col >= C.
ColViewAssign ==
    /\ pc = "ready"
    /\ \E Col \in 0..MaxDim, t \in SeqsOfLen(Values, ROW_COUNT(y)) :
          IF Col < COL_COUNT(y)
          THEN /\ y' = ViewAssign(y, GetColViewImpl(y, Col), t)
               /\ ret' = Result("col_view_assign", <<Col, t>>, "ok", << >>, {})
          ELSE /\ y' = y
               /\ ret' = Result("col_view_assign", <<Col, t>>, "rejected", << >>, {})
    /\ pc' = "done"
    /\ UNCHANGED x

\* ---------------------------------------------------------------- operations

\* y.transpose().
Transpose ==
    /\ pc = "ready"
    /\ ret' = Result("transpose", << >>, "ok", transpose_impl(y), {})
    /\ pc' = "done"
    /\ UNCHANGED <<x, y>>

\* y * other, for a right operand of type Mat<OtherR, OtherC>.  The
\* operator is declared for Mat<C, OtherC> alone.
Multiply ==
    /\ pc = "ready"
    /\ \E OtherR \in Dims, OtherC \in Dims :
          IF MulAccepted(y, DefaultCtor(OtherR, OtherC))
          THEN \E other \in Mats(OtherR, OtherC) :
                  ret' = Result("multiply", other, "ok", Mul(y, other), {})
          ELSE ret' = Result("multiply", DefaultCtor(OtherR, OtherC), "rejected", << >>, {})
    /\ pc' = "done"
    /\ UNCHANGED <<x, y>>

\* Mat<R, C>::identity(), and the products of y with it.  identity() has a
\* static_assert that the type is square.
MulIdentity ==
    /\ pc = "ready"
    /\ ret' = IF ROW_COUNT(y) = COL_COUNT(y)
              THEN Result("identity", identity(ROW_COUNT(y)), "ok",
                          [MI |-> Mul(y, identity(ROW_COUNT(y))),
                           IM |-> Mul(identity(ROW_COUNT(y)), y),
                           II |-> Mul(identity(ROW_COUNT(y)), identity(ROW_COUNT(y)))], {})
              ELSE Result("identity", << >>, "rejected", << >>, {})
    /\ pc' = "done"
    /\ UNCHANGED <<x, y>>

Next ==
    \/ ConstructPack
    \/ ConstructList
    \/ ConstructDefault
    \/ ConstructZeros
    \/ Copy
    \/ Bracket
    \/ AtRow
    \/ AtElem
    \/ AtElemAssign
    \/ GetCol
    \/ ColViewAssign
    \/ Transpose
    \/ Multiply
    \/ MulIdentity

Spec == Init /\ [][Next]_vars

\* ---------------------------------------------------------------- properties

\* The shape of the type of x and y.
R_ == ROW_COUNT(y)
C_ == COL_COUNT(y)

\* The sum over k in [0, n) of A[i][k] * B[k][j].
RECURSIVE DotSum(_, _, _, _, _)
DotSum(A, B, i, j, n) ==
    IF n = 0 THEN 0 ELSE DotSum(A, B, i, j, n - 1) + Elem(A, i, n - 1) * Elem(B, n - 1, j)

\* C1: y * other is accepted exactly when other has as many rows as y has
\* columns, and then the product has the rows of y, the columns of other,
\* and at (i, j) the sum over k of y[i][k] * other[k][j].
MulIsInnerProducts ==
    ret.op = "multiply" =>
        /\ ret.status = "ok" <=> C_ = ROW_COUNT(ret.arg)
        /\ ret.status = "ok" =>
              /\ ROW_COUNT(ret.val) = R_
              /\ \A i \in 0..(R_ - 1) :
                    /\ Len(ret.val[i + 1]) = COL_COUNT(ret.arg)
                    /\ \A j \in 0..(COL_COUNT(ret.arg) - 1) :
                          Elem(ret.val, i, j) = DotSum(y, ret.arg, i, j, C_)

\* A product of a 2 x 2 matrix with a 2 x 1 matrix, one of whose elements is
\* a sum of two non-zero products.
MulWitness ==
    /\ ret.op = "multiply"
    /\ ret.status = "ok"
    /\ R_ = 2 /\ C_ = 2 /\ COL_COUNT(ret.arg) = 1
    /\ Elem(ret.val, 1, 0) = 2
    /\ Elem(ret.val, 0, 0) = 0

\* C2: y.transpose() has C rows and R columns, its element (i, j) is y's
\* element (j, i), and y is what it was (the copy of x).
TransposeSwapsIndices ==
    ret.op = "transpose" =>
        /\ ret.status = "ok"
        /\ ROW_COUNT(ret.val) = C_
        /\ \A i \in 0..(C_ - 1) :
              /\ Len(ret.val[i + 1]) = R_
              /\ \A j \in 0..(R_ - 1) : Elem(ret.val, i, j) = Elem(y, j, i)
        /\ y = x

\* The transpose of a 1 x 2 matrix with two different elements, and of a
\* 2 x 2 matrix that is not symmetric.
TransposeWitness ==
    /\ ret.op = "transpose"
    /\ \/ R_ = 1 /\ C_ = 2 /\ Elem(y, 0, 0) # Elem(y, 0, 1)
       \/ R_ = 2 /\ C_ = 2 /\ Elem(y, 0, 1) # Elem(y, 1, 0)
    /\ ret.val # y

\* C3: a matrix constructed from one value v has v at every element.
SingleValueBroadcasts ==
    (/\ ret.op = "pack_ctor"
     /\ ret.status = "ok"
     /\ Len(ret.arg) = 1
     /\ ELEM_COUNT(ROW_COUNT(x), COL_COUNT(x)) > 1)
    => \A r \in 0..(ROW_COUNT(x) - 1), c \in 0..(COL_COUNT(x) - 1) : Elem(x, r, c) = ret.arg[1]

\* C4: a row-wise construction with a row whose length is not C raises a
\* length error, and the matrix it was to be assigned to keeps its value.
ListMismatchRaisesLengthError ==
    (/\ ret.op = "list_ctor"
     /\ ~every_list_must_have_C_elements(COL_COUNT(x), ret.arg))
    => /\ ret.status = "length_error"
       /\ x = DefaultCtor(ROW_COUNT(x), COL_COUNT(x))

\* C5: y[r] and y.at(r) give row r when r < R and raise out_of_range when
\* r >= R; y.at(r, c), read or written, gives element (r, c) when r < R and
\* c < C and raises out_of_range otherwise.  No position outside the storage
\* is reached, and a failed access leaves y what it was (the copy of x).
AccessIsBoundsChecked ==
    /\ ret.op \in {"bracket", "at_row"} =>
          /\ ret.arg[1] < R_ =>
                /\ ret.status = "ok"
                /\ Len(ret.val) = C_
                /\ \A c \in 0..(C_ - 1) : ret.val[c + 1] = Elem(y, ret.arg[1], c)
          /\ ret.arg[1] >= R_ => ret.status = "out_of_range"
          /\ y = x
    /\ ret.op = "at_elem" =>
          /\ (ret.arg[1] < R_ /\ ret.arg[2] < C_) =>
                /\ ret.status = "ok"
                /\ ret.val = Elem(y, ret.arg[1], ret.arg[2])
          /\ (ret.arg[1] >= R_ \/ ret.arg[2] >= C_) => ret.status = "out_of_range"
          /\ y = x
    /\ ret.op = "at_assign" =>
          /\ (ret.arg[1] < R_ /\ ret.arg[2] < C_) =>
                /\ ret.status = "ok"
                /\ \A r \in 0..(R_ - 1), c \in 0..(C_ - 1) :
                      Elem(y, r, c) = IF <<r, c>> = <<ret.arg[1], ret.arg[2]>>
                                      THEN ret.arg[3] ELSE Elem(x, r, c)
          /\ (ret.arg[1] >= R_ \/ ret.arg[2] >= C_) =>
                /\ ret.status = "out_of_range"
                /\ y = x
    /\ ret.op \in {"bracket", "at_row", "at_elem", "at_assign"} =>
          \A p \in ret.touched : p[1] < R_ /\ (Len(p) = 2 => p[2] < C_)

\* An access that failed on the column after the row check passed, next to
\* a matrix that is not all zero.
AccessWitness ==
    /\ ret.op = "at_assign"
    /\ ret.status = "out_of_range"
    /\ ret.arg[1] < R_
    /\ ret.arg[2] = C_
    /\ ret.arg[3] = 1
    /\ R_ = 2 /\ C_ = 2
    /\ Elem(y, 1, 1) = 1

\* C6: a pack of n >= 1 values constructs the matrix exactly when n = 1 or
\* n = R * C; any other pack is rejected by the compiler, and nothing else
\* can happen.
PackCountGate ==
    ret.op = "pack_ctor" =>
        /\ ret.status \in {"ok", "not_constructible"}
        /\ ret.status = "ok" <=>
              (Len(ret.arg) = 1 \/ Len(ret.arg) = ROW_COUNT(x) * COL_COUNT(x))

\* A 2 x 2 matrix refused a pack of three values.
PackCountWitness ==
    /\ ret.op = "pack_ctor"
    /\ ret.status = "not_constructible"
    /\ ROW_COUNT(x) = 2 /\ COL_COUNT(x) = 2
    /\ Len(ret.arg) = 3

\* C7: R lists of exactly C values each construct the matrix the value-pack
\* constructor makes of the R * C values in row-major order: element (r, c)
\* is the c-th value of the r-th list, which is value r * C + c of the pack.
ListEqualsPositional ==
    (/\ ret.op = "list_ctor"
     /\ every_list_must_have_C_elements(COL_COUNT(x), ret.arg))
    => /\ ret.status = "ok"
       /\ equal(x, PackCtor(ROW_COUNT(x), COL_COUNT(x), tuple_cat(ret.arg)))
       /\ \A r \in 0..(ROW_COUNT(x) - 1), c \in 0..(COL_COUNT(x) - 1) :
             /\ Elem(x, r, c) = ret.arg[r + 1][c + 1]
             /\ Elem(x, r, c) = tuple_cat(ret.arg)[r * COL_COUNT(x) + c + 1]

\* A 2 x 2 matrix from the lists {0, 1} and {1, 0}.
ListWitness ==
    /\ ret.op = "list_ctor"
    /\ ret.status = "ok"
    /\ ret.arg = <<(<<0, 1>>), (<<1, 0>>)>>
    /\ x = <<(<<0, 1>>), (<<1, 0>>)>>

\* C8: y.col_view<K>() = t sets y's element (i, K) to t[i] for every row i,
\* leaves every element of y in another column what it was, and leaves x,
\* the matrix y was copied from, what it was.
ColViewAssignFrame ==
    [][(ret'.op = "col_view_assign" /\ ret'.status = "ok" /\ pc = "ready") =>
          /\ \A i \in 0..(R_ - 1), c \in 0..(C_ - 1) :
                Elem(y', i, c) = IF c = ret'.arg[1] THEN ret'.arg[2][i + 1] ELSE Elem(y, i, c)
          /\ ROW_COUNT(y') = R_
          /\ x' = x]_vars

\* Column 1 of a 2 x 2 matrix assigned, and the matrix changed by it.
ColViewWitness ==
    /\ ret.op = "col_view_assign"
    /\ ret.status = "ok"
    /\ R_ = 2 /\ C_ = 2
    /\ ret.arg[1] = 1
    /\ ret.arg[2] = <<1, 0>>
    /\ y # x

\* C9: y.get_col<K>() is accepted exactly when K < C, whatever the shape,
\* and gives the R elements of column K in row order.
GetColAnyShape ==
    ret.op = "get_col" =>
        /\ ret.status = "ok" <=> ret.arg[1] < C_
        /\ ret.status = "ok" =>
              /\ Len(ret.val) = R_
              /\ \A i \in 0..(R_ - 1) : ret.val[i + 1] = Elem(y, i, ret.arg[1])

\* C10: for a square y and I = identity(): y * I == y, I * y == y,
\* y * I == I * y and I * I == I, where I has 1 at every (i, i) and 0
\* elsewhere; identity() exists exactly for the square types.
IdentityIsNeutral ==
    ret.op = "identity" =>
        /\ ret.status = "ok" <=> R_ = C_
        /\ ret.status = "ok" =>
              /\ \A i \in 0..(R_ - 1), j \in 0..(R_ - 1) :
                    Elem(ret.arg, i, j) = IF i = j THEN 1 ELSE 0
              /\ equal(ret.val.MI, y)
              /\ equal(ret.val.IM, y)
              /\ equal(ret.val.MI, ret.val.IM)
              /\ equal(ret.val.II, ret.arg)

\* The products of identity() with a 2 x 2 matrix that has a non-zero
\* element off the diagonal and a zero on it.
IdentityWitness ==
    /\ ret.op = "identity"
    /\ ret.status = "ok"
    /\ R_ = 2
    /\ Elem(y, 0, 1) = 1
    /\ Elem(y, 1, 1) = 0
    /\ ret.val.MI = y

\* C11: a default-constructed matrix has every element zero, and compares
\* equal to the matrix built from the single value 0, to the matrix built
\* from R * C zeros, and to zeros().
DefaultIsAllZero ==
    ret.op \in {"default_ctor", "zeros"} =>
        /\ ret.status = "ok"
        /\ \A r \in 0..(ROW_COUNT(x) - 1), c \in 0..(COL_COUNT(x) - 1) : Elem(x, r, c) = 0
        /\ equal(DefaultCtor(ROW_COUNT(x), COL_COUNT(x)), x)
        /\ equal(DefaultCtor(ROW_COUNT(x), COL_COUNT(x)),
                 PackCtor(ROW_COUNT(x), COL_COUNT(x), <<0>>))
        /\ equal(DefaultCtor(ROW_COUNT(x), COL_COUNT(x)),
                 PackCtor(ROW_COUNT(x), COL_COUNT(x),
                          [i \in 1..ELEM_COUNT(ROW_COUNT(x), COL_COUNT(x)) |-> 0]))
        /\ equal(DefaultCtor(ROW_COUNT(x), COL_COUNT(x)), zeros(ROW_COUNT(x), COL_COUNT(x)))

\* A default-constructed 2 x 2 matrix.
DefaultWitness ==
    /\ ret.op = "default_ctor"
    /\ pc = "constructed"
    /\ ROW_COUNT(x) = 2 /\ COL_COUNT(x) = 2

====
